---------------------------- MODULE Spec2Model ----------------------------
(***************************************************************************)
(* Model of the flight record manager (src/1zadanie.py): the FlightManager *)
(* class with its JSON/XML persistence and the command dispatcher main().  *)
(*                                                                         *)
(* Two specifications:                                                     *)
(*   Spec     successive runs of main() (add / display / select) against   *)
(*            the files of the home directory;                             *)
(*   SpecApi  one FlightManager object whose methods are called directly.  *)
(*                                                                         *)
(* Text that the program converts (the -dd / -D arguments, the text of an  *)
(* XML <departure_date>) is a sequence of one-character strings.           *)
(***************************************************************************)
EXTENDS Integers, Sequences, FiniteSets, TLC

VARIABLES
    disk,             \* filename -> content of the file in the home directory
    file_path,        \* FlightManager.file_path of the current manager
    flights,          \* FlightManager.flights of the current manager
    old_flights,      \* history: flights when the last operation started
    selected_flights, \* the list last returned by select_flights
    out,              \* what the last operation printed
    err,              \* the exception that ended the last operation, or "none"
    before,           \* history: content at file_path when the last operation started
    written,          \* history: the list the manager's last save wrote, if any
    command,          \* args.command of the last run of main ("none" before any)
    argv,             \* the command line of the last run of main
    call              \* the FlightManager method last called directly

vars == << disk, file_path, flights, old_flights, selected_flights, out, err,
           before, written, command, argv, call >>

-----------------------------------------------------------------------------
(* Bounds and input sets *)

\* Longest list built by direct add_flight calls.
MaxFlights == 2

FileNames == {"flights.json", "flights.xml", "flights.txt"}

Destinations == {"Paris", "Rome"}

AircraftTypes == {"A320"}

\* The -dd / -D argument texts tried: plain, leading zero, signed, padded with
\* blanks, with an underscore, and texts int() rejects.
DateArgs ==
    { <<"1">>, <<"0", "1">>, <<"-", "1">>, <<"+", "2">>, <<" ", "2", " ">>,
      <<"1", "_", "0">>,
      <<>>, <<"-">>, <<"1", "_">>, <<"2", "x">> }

\* departure_date values passed to add_flight / select_flights directly.
ApiDates == {-1, 10}

-----------------------------------------------------------------------------
(* int(text) and str(n) *)

DigitChars == <<"0", "1", "2", "3", "4", "5", "6", "7", "8", "9">>

Digits == {DigitChars[i] : i \in 1..10}

DigitVal(c) == (CHOOSE i \in 1..10 : DigitChars[i] = c) - 1

RECURSIVE StripLeft(_)
StripLeft(s) ==
    IF Len(s) > 0 /\ s[1] = " " THEN StripLeft(Tail(s)) ELSE s

RECURSIVE StripRight(_)
StripRight(s) ==
    IF Len(s) > 0 /\ s[Len(s)] = " "
    THEN StripRight(SubSeq(s, 1, Len(s) - 1))
    ELSE s

Strip(s) == StripRight(StripLeft(s))

\* The text with an optional leading sign removed.
Unsigned(s) == IF Len(s) > 0 /\ s[1] \in {"-", "+"} THEN Tail(s) ELSE s

\* int() accepts: blanks around, one optional sign, digits with single
\* underscores between them.
IsIntLiteral(text) ==
    LET b == Unsigned(Strip(text))
    IN  /\ Len(b) > 0
        /\ \A i \in 1..Len(b) : b[i] \in Digits \cup {"_"}
        /\ b[1] \in Digits
        /\ b[Len(b)] \in Digits
        /\ \A i \in 1..(Len(b) - 1) : ~(b[i] = "_" /\ b[i + 1] = "_")

RECURSIVE DigitsValue(_, _)
DigitsValue(b, acc) ==
    IF b = <<>> THEN acc
    ELSE IF b[1] = "_" THEN DigitsValue(Tail(b), acc)
    ELSE DigitsValue(Tail(b), 10 * acc + DigitVal(b[1]))

\* int(text) for a text IsIntLiteral accepts.
ParseInt(text) ==
    LET s == Strip(text)
        v == DigitsValue(Unsigned(s), 0)
    IN  IF s[1] = "-" THEN -v ELSE v

RECURSIVE NatToStr(_)
NatToStr(n) ==
    IF n < 10 THEN <<DigitChars[n + 1]>>
    ELSE NatToStr(n \div 10) \o <<DigitChars[(n % 10) + 1]>>

\* str(n)
IntToStr(n) == IF n < 0 THEN <<"-">> \o NatToStr(-n) ELSE NatToStr(n)

-----------------------------------------------------------------------------
(* Flight and FlightManager *)

FlightFields == {"destination", "departure_date", "aircraft_type"}

Flight(destination, departure_date, aircraft_type) ==
    [ destination |-> destination,
      departure_date |-> departure_date,
      aircraft_type |-> aircraft_type ]

add_flight(fl, destination, departure_date, aircraft_type) ==
    Append(fl, Flight(destination, departure_date, aircraft_type))

NoOutput == [message |-> "", rows |-> <<>>]

\* The table's rows (the border and heading lines carry no data), or the
\* message printed for an empty list.
display_flights(fl) ==
    IF fl # <<>>
    THEN [ message |-> "",
           rows |-> [ idx \in 1..Len(fl) |->
                        [ no |-> idx,
                          destination |-> fl[idx].destination,
                          departure_date |-> fl[idx].departure_date,
                          aircraft_type |-> fl[idx].aircraft_type ] ] ]
    ELSE [ message |-> "No flights found.", rows |-> <<>> ]

\* A plausible slip: a range test where the code tests equality.
select_flights_from(fl, date) ==
    SelectSeq(fl, LAMBDA f : f.departure_date >= date)

RECURSIVE select_flights(_, _)
select_flights(fl, date) ==
    IF fl = <<>> THEN <<>>
    ELSE IF fl[1].departure_date = date
         THEN <<fl[1]>> \o select_flights(Tail(fl), date)
         ELSE select_flights(Tail(fl), date)

(* File contents: fmt says what text the file holds ("none": no file),     *)
(* items the objects of a JSON array or the <flight> elements of an XML    *)
(* document, each a function from key / child name to value / text.        *)
NoFile == [fmt |-> "none", items |-> <<>>]

\* A file of the home directory this program did not write.
ForeignText == [fmt |-> "text", items |-> <<>>]

save_flights_json(fl) ==
    [ fmt |-> "json",
      items |-> [ i \in 1..Len(fl) |->
                    [ destination |-> fl[i].destination,
                      departure_date |-> fl[i].departure_date,
                      aircraft_type |-> fl[i].aircraft_type ] ] ]

save_flights_xml(fl) ==
    [ fmt |-> "xml",
      items |-> [ i \in 1..Len(fl) |->
                    [ destination |-> fl[i].destination,
                      departure_date |-> IntToStr(fl[i].departure_date),
                      aircraft_type |-> fl[i].aircraft_type ] ] ]

\* open() and json.load() of the file, then Flight(**flight_data) for every
\* object: the outcome and the list assigned to self.flights (cur when the
\* assignment is never reached).
load_flights_json(content, cur) ==
    IF content.fmt = "none"
    THEN [err |-> "FileNotFoundError", flights |-> cur]
    ELSE IF content.fmt # "json"
    THEN [err |-> "JSONDecodeError", flights |-> cur]
    ELSE IF \E i \in 1..Len(content.items) :
                DOMAIN content.items[i] # FlightFields
    THEN [err |-> "TypeError", flights |-> cur]
    ELSE [ err |-> "none",
           flights |-> [ i \in 1..Len(content.items) |->
                           Flight(content.items[i].destination,
                                  content.items[i].departure_date,
                                  content.items[i].aircraft_type) ] ]

-----------------------------------------------------------------------------
(* main() *)

\* Path(...).suffix of the file names used.
Suffix(filename) ==
    CASE filename = "flights.json" -> ".json"
      [] filename = "flights.xml" -> ".xml"
      [] OTHER -> ".txt"

NotWritten == [done |-> FALSE, flights |-> <<>>]

\* A plausible slip: every other suffix falls through to the JSON writer.
SaveBySuffixElseJson(path, fl, d) ==
    IF Suffix(path) = ".xml"
    THEN [d EXCEPT ![path] = save_flights_xml(fl)]
    ELSE [d EXCEPT ![path] = save_flights_json(fl)]

\* The save at the end of main: the disk afterwards.
SaveBySuffix(path, fl, d) ==
    IF Suffix(path) = ".json"
    THEN [d EXCEPT ![path] = save_flights_json(fl)]
    ELSE IF Suffix(path) = ".xml"
    THEN [d EXCEPT ![path] = save_flights_xml(fl)]
    ELSE d

\* Whether that save calls a writer at all.
SavesBySuffix(path) == Suffix(path) \in {".json", ".xml"}

NoCall == [method |-> "none", date |-> 0]

Args(filename, destination, departure_date, aircraft_type, date) ==
    [ filename |-> filename,
      destination |-> destination,
      departure_date |-> departure_date,
      aircraft_type |-> aircraft_type,
      date |-> date ]

\* A plausible slip: the record is stored with the raw text and converted
\* afterwards, so a bad date fails with the store already changed.
MainAddConvertLate(filename, destination, departure_date, aircraft_type) ==
    LET ok == IsIntLiteral(departure_date)
        fl == add_flight(<<>>, destination,
                         IF ok THEN ParseInt(departure_date) ELSE 0,
                         aircraft_type)
    IN  /\ command' = "add"
        /\ argv' = Args(filename, destination, departure_date, aircraft_type, <<>>)
        /\ file_path' = filename
        /\ old_flights' = <<>>
        /\ before' = disk[filename]
        /\ flights' = fl
        /\ selected_flights' = <<>>
        /\ out' = NoOutput
        /\ err' = IF ok THEN "none" ELSE "ValueError"
        /\ disk' = IF ok THEN SaveBySuffix(filename, fl, disk) ELSE disk
        /\ written' = IF ok /\ SavesBySuffix(filename)
                      THEN [done |-> TRUE, flights |-> fl]
                      ELSE NotWritten
        /\ UNCHANGED call

\* flights add <filename> -d <destination> -dd <departure_date> -at <aircraft_type>
MainAdd(filename, destination, departure_date, aircraft_type) ==
    LET ok == IsIntLiteral(departure_date)
        fl == IF ok
              THEN add_flight(<<>>, destination, ParseInt(departure_date),
                              aircraft_type)
              ELSE <<>>
    IN  /\ command' = "add"
        /\ argv' = Args(filename, destination, departure_date, aircraft_type, <<>>)
        /\ file_path' = filename
        /\ old_flights' = <<>>
        /\ before' = disk[filename]
        /\ flights' = fl
        /\ selected_flights' = <<>>
        /\ out' = NoOutput
        /\ err' = IF ok THEN "none" ELSE "ValueError"
        /\ disk' = IF ok THEN SaveBySuffix(filename, fl, disk) ELSE disk
        /\ written' = IF ok /\ SavesBySuffix(filename)
                      THEN [done |-> TRUE, flights |-> fl]
                      ELSE NotWritten
        /\ UNCHANGED call

\* flights display <filename>
MainDisplay(filename) ==
    /\ command' = "display"
    /\ argv' = Args(filename, "", <<>>, "", <<>>)
    /\ file_path' = filename
    /\ old_flights' = <<>>
    /\ before' = disk[filename]
    /\ flights' = <<>>
    /\ selected_flights' = <<>>
    /\ out' = display_flights(<<>>)
    /\ err' = "none"
    /\ disk' = SaveBySuffix(filename, <<>>, disk)
    /\ written' = IF SavesBySuffix(filename)
                  THEN [done |-> TRUE, flights |-> <<>>]
                  ELSE NotWritten
    /\ UNCHANGED call

\* flights select <filename> -D <date>: int(date), select_flights, then
\* display_flights called with an argument it does not take.
MainSelect(filename, date) ==
    LET ok == IsIntLiteral(date)
    IN  /\ command' = "select"
        /\ argv' = Args(filename, "", <<>>, "", date)
        /\ file_path' = filename
        /\ old_flights' = <<>>
        /\ before' = disk[filename]
        /\ flights' = <<>>
        /\ selected_flights' = IF ok THEN select_flights(<<>>, ParseInt(date))
                               ELSE <<>>
        /\ out' = NoOutput
        /\ err' = IF ok THEN "TypeError" ELSE "ValueError"
        /\ disk' = disk
        /\ written' = NotWritten
        /\ UNCHANGED call

Init ==
    /\ disk \in { [f \in FileNames |-> NoFile],
                  [f \in FileNames |->
                      IF f = "flights.txt" THEN ForeignText ELSE NoFile] }
    /\ file_path = "flights.json"
    /\ flights = <<>>
    /\ old_flights = <<>>
    /\ selected_flights = <<>>
    /\ out = NoOutput
    /\ err = "none"
    /\ before = NoFile
    /\ written = NotWritten
    /\ command = "none"
    /\ argv = Args("", "", <<>>, "", <<>>)
    /\ call = NoCall

Next ==
    \/ \E f \in FileNames, d \in Destinations, dd \in DateArgs, at \in AircraftTypes :
          MainAdd(f, d, dd, at)
    \/ \E f \in FileNames : MainDisplay(f)
    \/ \E f \in FileNames, date \in DateArgs : MainSelect(f, date)

Spec == Init /\ [][Next]_vars

-----------------------------------------------------------------------------
(* Direct calls of the methods of one FlightManager *)

ApiCall(method, date) ==
    /\ call' = [method |-> method, date |-> date]
    /\ old_flights' = flights
    /\ before' = disk[file_path]
    /\ UNCHANGED << file_path, command, argv >>

ApiAddFlight(destination, departure_date, aircraft_type) ==
    /\ Len(flights) < MaxFlights
    /\ ApiCall("add_flight", 0)
    /\ flights' = add_flight(flights, destination, departure_date, aircraft_type)
    /\ err' = "none"
    /\ out' = NoOutput
    /\ UNCHANGED << disk, selected_flights, written >>

ApiDisplayFlights ==
    /\ ApiCall("display_flights", 0)
    /\ out' = display_flights(flights)
    /\ err' = "none"
    /\ UNCHANGED << disk, flights, selected_flights, written >>

ApiSelectFlights(date) ==
    /\ ApiCall("select_flights", date)
    /\ selected_flights' = select_flights(flights, date)
    /\ err' = "none"
    /\ out' = NoOutput
    /\ UNCHANGED << disk, flights, written >>

ApiSaveJson ==
    /\ ApiCall("save_flights_json", 0)
    /\ disk' = [disk EXCEPT ![file_path] = save_flights_json(flights)]
    /\ written' = [done |-> TRUE, flights |-> flights]
    /\ err' = "none"
    /\ out' = NoOutput
    /\ UNCHANGED << flights, selected_flights >>

ApiSaveXml ==
    /\ ApiCall("save_flights_xml", 0)
    /\ disk' = [disk EXCEPT ![file_path] = save_flights_xml(flights)]
    /\ written' = [done |-> TRUE, flights |-> flights]
    /\ err' = "none"
    /\ out' = NoOutput
    /\ UNCHANGED << flights, selected_flights >>

\* The class has one loader, whatever the file holds.
ApiLoadJson ==
    LET r == load_flights_json(disk[file_path], flights)
    IN  /\ ApiCall("load_flights_json", 0)
        /\ flights' = r.flights
        /\ err' = r.err
        /\ out' = NoOutput
        /\ UNCHANGED << disk, selected_flights, written >>

\* Files found at the path that this manager did not write: none, a JSON
\* array with an object lacking aircraft_type (alone, and after a complete
\* object), an XML document with a <flight> lacking <aircraft_type>, and
\* well-formed files of each format.
FoundFiles ==
    << NoFile,
       [ fmt |-> "json",
         items |-> << [destination |-> "Paris", departure_date |-> 10] >> ],
       [ fmt |-> "json",
         items |-> << [ destination |-> "Rome", departure_date |-> -1,
                        aircraft_type |-> "A320" ],
                      [destination |-> "Paris", departure_date |-> 10] >> ],
       [ fmt |-> "xml",
         items |-> << [ destination |-> "Paris",
                        departure_date |-> <<"1", "0">> ] >> ],
       [ fmt |-> "json",
         items |-> << [ destination |-> "Rome", departure_date |-> -1,
                        aircraft_type |-> "A320" ] >> ],
       [ fmt |-> "xml",
         items |-> << [ destination |-> "Rome", departure_date |-> <<"-", "1">>,
                        aircraft_type |-> "A320" ] >> ] >>

InitApi ==
    /\ file_path \in FileNames
    /\ \E k \in 1..Len(FoundFiles) :
          disk = [f \in FileNames |-> IF f = file_path THEN FoundFiles[k] ELSE NoFile]
    /\ flights = <<>>
    /\ old_flights = <<>>
    /\ selected_flights = <<>>
    /\ out = NoOutput
    /\ err = "none"
    /\ before = disk[file_path]
    /\ written = NotWritten
    /\ command = "none"
    /\ argv = Args("", "", <<>>, "", <<>>)
    /\ call = NoCall

NextApi ==
    \/ \E d \in Destinations, dd \in ApiDates, at \in AircraftTypes :
          ApiAddFlight(d, dd, at)
    \/ ApiDisplayFlights
    \/ \E date \in ApiDates : ApiSelectFlights(date)
    \/ ApiSaveJson
    \/ ApiSaveXml
    \/ ApiLoadJson

SpecApi == InitApi /\ [][NextApi]_vars

-----------------------------------------------------------------------------
(* Vocabulary of the properties *)

\* Equality of file contents, the format compared first.
ContentEq(a, b) == a.fmt = b.fmt /\ a.items = b.items

\* Whether every object / element of the file has the three fields.
Complete(content) ==
    \A i \in 1..Len(content.items) : DOMAIN content.items[i] = FlightFields

\* The records a complete JSON or XML file holds, read independently of the
\* program's loader (no file: none).
HeldFlights(content) ==
    IF content.fmt = "json"
    THEN [ i \in 1..Len(content.items) |->
             Flight(content.items[i].destination,
                    content.items[i].departure_date,
                    content.items[i].aircraft_type) ]
    ELSE IF content.fmt = "xml"
    THEN [ i \in 1..Len(content.items) |->
             Flight(content.items[i].destination,
                    ParseInt(content.items[i].departure_date),
                    content.items[i].aircraft_type) ]
    ELSE <<>>

\* The last run of main was given dates that int() accepts.
DatesParse ==
    /\ command = "add" => IsIntLiteral(argv.departure_date)
    /\ command = "select" => IsIntLiteral(argv.date)

\* The record the last add run was asked to add.
AddedFlight ==
    Flight(argv.destination, ParseInt(argv.departure_date), argv.aircraft_type)

\* sel is fl restricted to the positions whose departure_date is date, in
\* increasing position order.
IsSelectionOf(sel, fl, date) ==
    LET hits == {i \in 1..Len(fl) : fl[i].departure_date = date}
    IN  /\ Len(sel) = Cardinality(hits)
        /\ \E pos \in [1..Len(sel) -> 1..Len(fl)] :
              /\ \A k \in 1..Len(sel) : pos[k] \in hits /\ sel[k] = fl[pos[k]]
              /\ \A j, k \in 1..Len(sel) : j < k => pos[j] < pos[k]

-----------------------------------------------------------------------------
(* Properties *)

\* C1: an add run against a .json or .xml file leaves in the file the
\* records the file held when the run started followed by the new record.
C1_AddAppendsToFile ==
    (command = "add" /\ DatesParse /\ Suffix(file_path) \in {".json", ".xml"})
        => HeldFlights(disk[file_path])
              = Append(HeldFlights(before), AddedFlight)

\* C2: a load after the manager saved (in either format) succeeds and yields
\* the list that was saved.
C2_SaveLoadRoundTrip ==
    (call.method = "load_flights_json" /\ written.done /\ written.flights # <<>>)
        => (err = "none" /\ flights = written.flights)

\* C3: a display or select run against an existing .json or .xml file
\* leaves the file's content as it was.
C3_ReadOnlyKeepsFile ==
    (command \in {"display", "select"} /\ DatesParse
        /\ before.fmt \in {"json", "xml"})
        => ContentEq(disk[file_path], before)

\* C4: select_flights returns exactly the records whose departure_date is
\* the given date, in their original order, and leaves the list unchanged;
\* a second call with the same date and no change between returns the same.
C4_SelectExact ==
    /\ [](call.method = "select_flights"
            => /\ IsSelectionOf(selected_flights, flights, call.date)
               /\ flights = old_flights)
    /\ [][(call.method = "select_flights" /\ call'.method = "select_flights"
              /\ call'.date = call.date)
            => selected_flights' = selected_flights]_vars

C4_Witness ==
    /\ call.method = "select_flights"
    /\ Len(flights) = 2
    /\ Len(selected_flights) = 1
    /\ selected_flights[1] = flights[2]

\* C5: a select run completes without error and prints the table of the
\* file's matching records numbered from 1, or "No flights found." when
\* none match.
C5_SelectPrintsMatches ==
    (command = "select" /\ DatesParse)
        => /\ err = "none"
           /\ out = display_flights(
                      SelectSeq(HeldFlights(before),
                                LAMBDA f : f.departure_date = ParseInt(argv.date)))

\* C6: every add, display or select run on a .json or .xml file reaches the
\* save, and the file then holds the manager's list in the suffix's format.
C6_RunEndsSaved ==
    (command \in {"add", "display", "select"} /\ DatesParse
        /\ Suffix(file_path) \in {".json", ".xml"})
        => /\ written.done
           /\ disk[file_path].fmt = (IF Suffix(file_path) = ".json"
                                     THEN "json" ELSE "xml")
           /\ HeldFlights(disk[file_path]) = flights

\* C7: the store a run starts its command with is empty, without error, when
\* no file exists at the path, and is the file's records when one exists.
C7_StartupLoads ==
    (command \in {"add", "display", "select"} /\ DatesParse)
        => /\ before.fmt = "none"
                => (old_flights = <<>> /\ err # "FileNotFoundError")
           /\ before.fmt \in {"json", "xml"}
                => old_flights = HeldFlights(before)

C9_BadDateTouchesNothing ==
    (command \in {"add", "select"} /\ ~DatesParse)
        => /\ err = "ValueError"
           /\ flights = <<>>
           /\ selected_flights = <<>>
           /\ ~written.done
           /\ ContentEq(disk[file_path], before)

C9_Witness ==
    /\ command = "add"
    /\ argv.departure_date = <<"2", "x">>
    /\ err = "ValueError"
    /\ before.fmt = "json"
    /\ Len(before.items) = 1

\* C10: loading a JSON or XML file in which some record lacks a required
\* field ends in the structural error (TypeError of the Flight constructor)
\* and stores nothing.
C10_MissingFieldIsStructuralError ==
    (call.method = "load_flights_json" /\ before.fmt \in {"json", "xml"}
        /\ ~Complete(before))
        => (err = "TypeError" /\ flights = old_flights)

=============================================================================
